---- MODULE Spec2Model ----
(***************************************************************************)
(* A model of tools/glib-client-gen.py: the generator that turns a D-Bus   *)
(* introspection schema into a C header and a C body of synchronous call   *)
(* stubs.  Attribute values that the generator transforms character by     *)
(* character (node names, method names, the prefix) are sequences of       *)
(* one-character strings; values it only compares or formats whole         *)
(* (argument names, directions, wire types) and every emitted line are     *)
(* strings.                                                                *)
(***************************************************************************)
EXTENDS Integers, Sequences, FiniteSets, TLC

(***************************************************************************)
(* Bounds of the explored schemas and runs.                                *)
(***************************************************************************)
MaxArgs == 3
MaxNodes == 3
MaxRuns == 2

(***************************************************************************)
(* Characters and the Python string operations the generator uses.         *)
(***************************************************************************)
UpperCase ==
  <<"A","B","C","D","E","F","G","H","I","J","K","L","M",
    "N","O","P","Q","R","S","T","U","V","W","X","Y","Z">>

LowerCase ==
  <<"a","b","c","d","e","f","g","h","i","j","k","l","m",
    "n","o","p","q","r","s","t","u","v","w","x","y","z">>

\* The characters of the modelled names in code-point order.
CodePoints ==
  <<"/">> \o <<"0","1","2","3","4","5","6","7","8","9">> \o UpperCase
    \o <<"_">> \o LowerCase

Ord(c) == CHOOSE i \in 1..Len(CodePoints) : CodePoints[i] = c

IsUpper(c) == \E i \in 1..Len(UpperCase) : UpperCase[i] = c

IsLower(c) == \E i \in 1..Len(LowerCase) : LowerCase[i] = c

LowerChar(c) ==
  IF IsUpper(c)
  THEN LowerCase[CHOOSE i \in 1..Len(UpperCase) : UpperCase[i] = c]
  ELSE c

UpperChar(c) ==
  IF IsLower(c)
  THEN UpperCase[CHOOSE i \in 1..Len(LowerCase) : LowerCase[i] = c]
  ELSE c

\* str.lower()
lower(cs) == [i \in 1..Len(cs) |-> LowerChar(cs[i])]

\* str.upper()
upper(cs) == [i \in 1..Len(cs) |-> UpperChar(cs[i])]

\* str.replace('/', '')
replace_slash(cs) == SelectSeq(cs, LAMBDA c : c # "/")

\* The text of a character sequence.
RECURSIVE Str(_)
Str(cs) == IF cs = <<>> THEN "" ELSE Head(cs) \o Str(Tail(cs))

\* '%u' % n
RECURSIVE DecimalStr(_)
DecimalStr(n) ==
  LET digit == <<"0","1","2","3","4","5","6","7","8","9">>
  IN IF n < 10 THEN digit[n + 1]
     ELSE DecimalStr(n \div 10) \o digit[(n % 10) + 1]

\* '\n'.join(lines)
RECURSIVE Join(_)
Join(lines) ==
  IF lines = <<>> THEN ""
  ELSE IF Len(lines) = 1 THEN lines[1]
  ELSE lines[1] \o "\n" \o Join(Tail(lines))

RECURSIVE Concat(_)
Concat(seqs) == IF seqs = <<>> THEN <<>> ELSE Head(seqs) \o Concat(Tail(seqs))

(***************************************************************************)
(* libglibcodegen: the helpers the generator imports.                      *)
(***************************************************************************)
\* camelcase_to_lower: CamelCase -> lower_snake_case.
camelcase_to_lower(cs) ==
  Concat([i \in 1..Len(cs) |->
            IF i > 1 /\ IsUpper(cs[i]) /\ ~IsUpper(cs[i - 1])
            THEN <<"_", LowerChar(cs[i])>>
            ELSE <<LowerChar(cs[i])>>])

\* The signatures the type mapping table knows.
KnownTypes == {"s", "u", "i", "b", "o", "ay"}

\* type_to_gtype: (ctype, gtype, marshaller, pointer), or a failure for a
\* signature the table does not hold.
type_to_gtype(type) ==
  CASE type = "s" ->
         [ok |-> TRUE, ctype |-> "gchar *", gtype |-> "G_TYPE_STRING",
          marshaller |-> "STRING", pointer |-> TRUE]
    [] type = "u" ->
         [ok |-> TRUE, ctype |-> "guint ", gtype |-> "G_TYPE_UINT",
          marshaller |-> "UINT", pointer |-> FALSE]
    [] type = "i" ->
         [ok |-> TRUE, ctype |-> "gint ", gtype |-> "G_TYPE_INT",
          marshaller |-> "INT", pointer |-> FALSE]
    [] type = "b" ->
         [ok |-> TRUE, ctype |-> "gboolean ", gtype |-> "G_TYPE_BOOLEAN",
          marshaller |-> "BOOLEAN", pointer |-> FALSE]
    [] type = "o" ->
         [ok |-> TRUE, ctype |-> "gchar *", gtype |-> "DBUS_TYPE_G_OBJECT_PATH",
          marshaller |-> "BOXED", pointer |-> TRUE]
    [] type = "ay" ->
         [ok |-> TRUE, ctype |-> "GArray *", gtype |-> "DBUS_TYPE_G_UCHAR_ARRAY",
          marshaller |-> "BOXED", pointer |-> TRUE]
    [] OTHER ->
         [ok |-> FALSE, ctype |-> "", gtype |-> "", marshaller |-> "",
          pointer |-> FALSE]

\* cmp(a, b) on strings: code-point lexicographic, -1 / 0 / 1.
RECURSIVE cmp(_, _)
cmp(a, b) ==
  IF a = <<>> /\ b = <<>> THEN 0
  ELSE IF a = <<>> THEN -1
  ELSE IF b = <<>> THEN 1
  ELSE IF Ord(Head(a)) < Ord(Head(b)) THEN -1
  ELSE IF Ord(Head(a)) > Ord(Head(b)) THEN 1
  ELSE cmp(Tail(a), Tail(b))

\* cmp_by_name: compares two nodes by their name attribute.
cmp_by_name(node1, node2) == cmp(node1.name, node2.name)

(***************************************************************************)
(* The schema.  An element is                                              *)
(*   [tag, name, ifaces, nodes]                                            *)
(* where ifaces are its own interface children, each [signals, methods],   *)
(* and nodes are the node elements nested in it.  A signal is [name, args],*)
(* a method is [name, args], an arg is [name, direction, type, tp_type].   *)
(***************************************************************************)
\* A selection that takes every element, whatever its tag.
AnyElement(e) == TRUE

\* Which elements dom.getElementsByTagName('node') selects.
IsNodeElement(e) == e.tag = "node"

\* dom.getElementsByTagName('node'): every node element, in document order.
getNodeElements(d) ==
  Concat([i \in 1..Len(d) |->
            IF IsNodeElement(d[i])
            THEN <<d[i]>> \o SelectSeq(d[i].nodes, IsNodeElement)
            ELSE <<>>])

\* node.getElementsByTagName('interface'): the node's interface elements and
\* those of the nodes nested in it.
getInterfaceElements(node) ==
  node.ifaces \o Concat([j \in 1..Len(node.nodes) |-> node.nodes[j].ifaces])

\* node.getElementsByTagName('signal')
getSignalElements(node) ==
  LET is == getInterfaceElements(node)
  IN Concat([j \in 1..Len(is) |-> is[j].signals])

\* node.getElementsByTagName('method')
getMethodElements(node) ==
  LET is == getInterfaceElements(node)
  IN Concat([j \in 1..Len(is) |-> is[j].methods])

\* list.sort(cmp): a stable sort; x is the element that came last.
RECURSIVE Insert(_, _)
Insert(sorted, x) ==
  IF sorted = <<>> THEN <<x>>
  ELSE IF cmp_by_name(Head(sorted), x) > 0 THEN <<x>> \o sorted
  ELSE <<Head(sorted)>> \o Insert(Tail(sorted), x)

RECURSIVE Sort(_)
Sort(list) ==
  IF list = <<>> THEN <<>>
  ELSE Insert(Sort(SubSeq(list, 1, Len(list) - 1)), list[Len(list)])

\* The list left in document order.
unsorted(list) == list

\* ifaces.sort(cmp_by_name)
sort_by_name(list) == Sort(list)

(***************************************************************************)
(* The generation context: argv[1] and argv[2].                            *)
(***************************************************************************)
prefix == <<"T", "p", "_", "C", "l", "i">>

basename == "gen"

prefix_lc == Str(lower(prefix))

(***************************************************************************)
(* Generator.do_method                                                     *)
(***************************************************************************)
\* Everything but a literal 'in' taken as an output.
IsNotInDirection(direction) == direction # "in"

\* direction == 'out'
IsOutDirection(direction) == direction = "out"

\* 'in_%s' % name
InName(name) == "in_" \o name

\* 'out_%s' % name
OutName(name) == "out_" \o name

\* 'out%u' % ret_count
SynthName(ret_count) == "out" \o DecimalStr(ret_count)

\* The counter left where it was.
SameRetCount(ret_count) == ret_count

\* ret_count += 1
NextRetCount(ret_count) == ret_count + 1

\* insert(0, x) in place of append(x).
ListPrepend(list, x) == <<x>> \o list

\* in_args.append(x) / out_args.append(x)
ListAppend(list, x) == Append(list, x)

\* The loop over the method's arg elements.  st holds ret_count, in_args and
\* out_args; a failing type lookup ends the loop with ok = FALSE.
RECURSIVE ArgLoop(_, _, _)
ArgLoop(args, i, st) ==
  IF i > Len(args) THEN st
  ELSE
    LET arg == args[i]
        isIn == ~IsOutDirection(arg.direction)
        unnamed == ~isIn /\ arg.name = ""
        nm == IF isIn THEN InName(arg.name)
              ELSE IF unnamed THEN SynthName(st.ret_count)
              ELSE OutName(arg.name)
        rc == IF unnamed THEN NextRetCount(st.ret_count) ELSE st.ret_count
        info == type_to_gtype(arg.type)
        entry == [name |-> nm, info |-> info, tp_type |-> arg.tp_type]
    IN IF ~info.ok
       THEN [st EXCEPT !.ok = FALSE, !.ret_count = rc]
       ELSE ArgLoop(args, i + 1,
              [ok |-> TRUE, ret_count |-> rc,
               in_args |-> IF isIn THEN ListAppend(st.in_args, entry)
                           ELSE st.in_args,
               out_args |-> IF isIn THEN st.out_args
                            ELSE ListAppend(st.out_args, entry)])

StubName(iface_lc, member_lc) ==
  prefix_lc \o "_" \o iface_lc \o "_block_on_" \o member_lc \o " (gpointer *proxy,"

InParamLine(a) ==
  "    " \o (IF a.info.pointer THEN "const " ELSE "") \o a.info.ctype
    \o a.name \o ","

OutParamLine(a) == "    " \o a.info.ctype \o "*" \o a.name \o ","

PayloadLine(a) == "      " \o a.info.gtype \o ", " \o a.name \o ","

\* for arg in in_args / out_args: one line each.
InParamLines(list) == [i \in 1..Len(list) |-> InParamLine(list[i])]

OutParamLines(list) == [i \in 1..Len(list) |-> OutParamLine(list[i])]

PayloadLines(list) == [i \in 1..Len(list) |-> PayloadLine(list[i])]

\* The prototype appended to the header.
MethodHeaderLines(iface_lc, member_lc, ins, outs) ==
  <<"gboolean " \o StubName(iface_lc, member_lc)>>
    \o InParamLines(ins)
    \o OutParamLines(outs)
    \o <<"    GError **error);", "">>
    \o <<"">>

\* The parameters and the call payload of the definition, in emission order.
MethodParams(ins, outs) == InParamLines(ins) \o OutParamLines(outs)

MethodPayload(ins, outs) ==
  <<"      /* in arguments */">>
    \o PayloadLines(ins)
    \o <<"      G_TYPE_INVALID,", "      /* out arguments */">>
    \o PayloadLines(outs)
    \o <<"      G_TYPE_INVALID);">>

\* The definition appended to the body.
MethodBodyLines(iface_lc, iface_uc, member, member_lc, ins, outs) ==
  <<"gboolean\n" \o StubName(iface_lc, member_lc)>>
    \o MethodParams(ins, outs)
    \o <<"    GError **error)",
         "{",
         "  DBusGProxy *iface = tp_proxy_get_interface (",
         "      TP_PROXY (proxy),",
         "      TP_IFACE_QUARK_" \o iface_uc \o ",",
         "      error);",
         "",
         "  if (iface == NULL)",
         "    return FALSE;",
         "",
         "  return dbus_g_proxy_call (iface, \"" \o member \o "\", error,">>
    \o MethodPayload(ins, outs)
    \o <<"}", "", "">>

\* do_method with the first line of the stub emitted before the arguments are
\* resolved.
do_method_emit_first(h, b, iface, m) ==
  LET iface_lc == lower(iface)
      member_lc == camelcase_to_lower(m.name)
      h1 == h \o <<"gboolean " \o StubName(Str(iface_lc), Str(member_lc))>>
      b1 == b \o <<"gboolean\n" \o StubName(Str(iface_lc), Str(member_lc))>>
      st == ArgLoop(m.args, 1,
              [ok |-> TRUE, ret_count |-> 0, in_args |-> <<>>, out_args |-> <<>>])
  IN IF ~st.ok
     THEN [ok |-> FALSE, h |-> h1, b |-> b1, st |-> st]
     ELSE [ok |-> TRUE,
           h |-> h \o MethodHeaderLines(Str(iface_lc), Str(member_lc),
                                        st.in_args, st.out_args),
           b |-> b \o MethodBodyLines(Str(iface_lc), Str(upper(iface_lc)),
                                      Str(m.name), Str(member_lc),
                                      st.in_args, st.out_args),
           st |-> st]

\* do_method(iface, method) on the buffers h and b.
do_method(h, b, iface, m) ==
  LET iface_lc == lower(iface)
      member_lc == camelcase_to_lower(m.name)
      st == ArgLoop(m.args, 1,
              [ok |-> TRUE, ret_count |-> 0, in_args |-> <<>>, out_args |-> <<>>])
  IN IF ~st.ok
     THEN [ok |-> FALSE, h |-> h, b |-> b, st |-> st]
     ELSE [ok |-> TRUE,
           h |-> h \o MethodHeaderLines(Str(iface_lc), Str(member_lc),
                                        st.in_args, st.out_args),
           b |-> b \o MethodBodyLines(Str(iface_lc), Str(upper(iface_lc)),
                                      Str(m.name), Str(member_lc),
                                      st.in_args, st.out_args),
           st |-> st]

(***************************************************************************)
(* Generator.do_signal_add and Generator.do_interface                      *)
(***************************************************************************)
\* The loop of do_signal_add over the signal's arg elements: the gtypes
\* collected so far, or a failure at the first signature the table lacks.
RECURSIVE SignalArgLoop(_, _, _)
SignalArgLoop(args, i, gtypes) ==
  IF i > Len(args) THEN [ok |-> TRUE, gtypes |-> gtypes]
  ELSE LET info == type_to_gtype(args[i].type)
       IN IF ~info.ok THEN [ok |-> FALSE, gtypes |-> gtypes]
          ELSE SignalArgLoop(args, i + 1, Append(gtypes, info.gtype))

GTypeLine(gtype) == "      " \o gtype \o ","

\* do_signal_add(signal) on the header buffer h.
do_signal_add(h, signal) ==
  LET r == SignalArgLoop(signal.args, 1, <<>>)
  IN IF ~r.ok THEN [ok |-> FALSE, h |-> h]
     ELSE [ok |-> TRUE,
           h |-> h \o <<"  dbus_g_proxy_add_signal (proxy, \"" \o signal.name \o "\",">>
                   \o [i \in 1..Len(r.gtypes) |-> GTypeLine(r.gtypes[i])]
                   \o <<"      G_TYPE_INVALID);">>]

\* for signal in signals: self.do_signal_add(signal)
RECURSIVE SignalLoop(_, _, _)
SignalLoop(h, signals, i) ==
  IF i > Len(signals) THEN [ok |-> TRUE, h |-> h]
  ELSE LET r == do_signal_add(h, signals[i])
       IN IF ~r.ok THEN r ELSE SignalLoop(r.h, signals, i + 1)

\* assert len(ifaces) >= 1
AssertSomeInterface(n) == n >= 1

\* assert len(ifaces) == 1
AssertOneInterface(n) == n = 1

\* 'static inline void' and the name of the registration function.
SignalFunctionLine(name) ==
  prefix_lc \o "_add_signals_for_" \o Str(lower(name)) \o " (DBusGProxy *proxy)"

\* The registration block appended to the body as well as to the header.
signal_block_both(h, b, name, signals) ==
  LET r == SignalLoop(h \o <<"static inline void", SignalFunctionLine(name), "{">>,
                      signals, 1)
      block == SubSeq(r.h, Len(h) + 1, Len(r.h))
  IN IF ~r.ok THEN [ok |-> FALSE, h |-> r.h, b |-> b \o block]
     ELSE [ok |-> TRUE, h |-> r.h \o <<"}", "", "">>,
           b |-> b \o block \o <<"}", "", "">>]

\* The signal-registration block of do_interface.  Every line of it goes
\* through self.h; self.b is not called.
signal_block(h, b, name, signals) ==
  LET r == SignalLoop(h \o <<"static inline void", SignalFunctionLine(name), "{">>,
                      signals, 1)
  IN IF ~r.ok THEN [ok |-> FALSE, h |-> r.h, b |-> b]
     ELSE [ok |-> TRUE, h |-> r.h \o <<"}", "", "">>, b |-> b]

\* do_interface(node) up to its loop over the methods.
do_interface(h, b, node) ==
  LET name == replace_slash(node.name)
      none == [ok |-> FALSE, h |-> h, b |-> b, name |-> name, methods |-> <<>>,
               error |-> "none"]
  IN IF ~AssertOneInterface(Len(getInterfaceElements(node)))
     THEN [none EXCEPT !.error = "AssertionError"]
     ELSE LET r == signal_block(h, b, name, getSignalElements(node))
          IN IF ~r.ok
             THEN [none EXCEPT !.h = r.h, !.b = r.b, !.error = "UnknownType"]
             ELSE [ok |-> TRUE, h |-> r.h, b |-> r.b, name |-> name,
                   methods |-> getMethodElements(node), error |-> "none"]

(***************************************************************************)
(* The schemas explored.                                                   *)
(***************************************************************************)
Arg(name, direction, type) ==
  [name |-> name, direction |-> direction, type |-> type, tp_type |-> ""]

Method(name, args) == [name |-> name, args |-> args]

Signal(name, args) == [name |-> name, args |-> args]

Iface(signals, methods) == [signals |-> signals, methods |-> methods]

Node(name, ifaces, nodes) ==
  [tag |-> "node", name |-> name, ifaces |-> ifaces, nodes |-> nodes]

\* An element of the schema that is no node (a copyright or licence element).
Other == [tag |-> "other", name |-> <<>>, ifaces |-> <<>>, nodes |-> <<>>]

ArgSet ==
  {Arg(n, d, "u") : n \in {"", "a"}, d \in {"in", "out", ""}}
    \cup {Arg("a", "OUT", "u"), Arg("0", "out", "u"), Arg("b", "in", "s"),
          Arg("", "out", "zz")}

ArgLists == UNION {[1..n -> ArgSet] : n \in 0..MaxArgs}

DoThing == <<"D", "o", "T", "h", "i", "n", "g">>

\* One node, one interface, one method, any arguments.
MethodSchemas ==
  {<<Node(<<"/", "A">>, <<Iface(<<>>, <<Method(DoThing, args)>>)>>, <<>>)>> :
     args \in ArgLists}

Changed == Signal("Changed", <<Arg("", "", "u"), Arg("v", "", "s")>>)

Get == Method(<<"G", "e", "t">>, <<Arg("", "out", "s")>>)

ValidNode(name) == Node(name, <<Iface(<<Changed>>, <<Get>>)>>, <<>>)

Zeta == <<"Z", "e", "t", "a">>
Alpha == <<"A", "l", "p", "h", "a">>
Mu == <<"M", "u">>
alpha == <<"a", "l", "p", "h", "a">>
Xi == <<"/", "X", "i">>

\* A node whose interface has no members.
Bare == Node(Mu, <<Iface(<<>>, <<>>)>>, <<>>)

\* Nodes with no interface element and with two.
NoIface == Node(<<"N", "u">>, <<>>, <<>>)

TwoIface ==
  Node(<<"T", "w", "o">>, <<Iface(<<>>, <<>>), Iface(<<>>, <<Get>>)>>, <<>>)

\* A node with an interface of its own and a node nested in it that has one.
NestedTwo ==
  Node(<<"P", "a", "i", "r">>, <<Iface(<<>>, <<>>)>>, <<ValidNode(<<"I", "n">>)>>)

\* Nodes with a signature the type table lacks, in a method and in a signal.
BadMethod ==
  Node(<<"B", "e", "t", "a">>,
       <<Iface(<<Changed>>,
               <<Get, Method(<<"S", "e", "t">>, <<Arg("a", "in", "zz")>>)>>)>>,
       <<>>)

BadSignal ==
  Node(<<"G", "a", "m", "m", "a">>,
       <<Iface(<<Changed, Signal("Bad", <<Arg("", "", "zz")>>)>>, <<Get>>)>>,
       <<>>)

ElementSet ==
  {Other, ValidNode(Zeta), ValidNode(Alpha), ValidNode(alpha), ValidNode(Xi), Bare,
   NoIface, TwoIface, NestedTwo, BadMethod, BadSignal}

NodeSchemas == UNION {[1..n -> ElementSet] : n \in 0..MaxNodes}

Schemas == MethodSchemas \cup NodeSchemas

\* The schemas of a later run.
RerunSchemas ==
  {<<ValidNode(Alpha)>>,
   <<ValidNode(Zeta), Other, Bare>>,
   <<BadMethod>>,
   <<Node(<<"/", "A">>,
          <<Iface(<<>>, <<Method(DoThing, <<Arg("a", "in", "u"),
                                            Arg("", "out", "s")>>)>>)>>,
          <<>>)>>}

\* A destination file: absent, or holding earlier text.
InitialFiles == {[exists |-> FALSE, data |-> ""], [exists |-> TRUE, data |-> "stale"]}

(***************************************************************************)
(* The state.                                                              *)
(***************************************************************************)
VARIABLES
  dom,        \* self.dom
  header,     \* self.__header
  body,       \* self.__body
  ifaces,     \* __call__: the sorted node list
  idx,        \* __call__: position of the loop over ifaces
  name,       \* do_interface: name
  methods,    \* do_interface: methods
  midx,       \* do_interface: position of the loop over methods
  method,     \* do_method: the method last entered
  ret_count,  \* do_method: ret_count
  in_args,    \* do_method: in_args
  out_args,   \* do_method: out_args
  hfile,      \* the file basename + '.h'
  cfile,      \* the file basename + '.c'
  pc,         \* where the run is
  err,        \* the exception that ended the run, and where it was raised
  exits       \* how the runs so far ended

vars == <<dom, header, body, ifaces, idx, name, methods, midx, method,
          ret_count, in_args, out_args, hfile, cfile, pc, err, exits>>

locals == <<name, methods, midx, method, ret_count, in_args, out_args>>

NoMethod == Method(<<>>, <<>>)

NoError == [kind |-> "none", where |-> "none"]

\* Generator.__init__: both buffers start as new empty lists.
NewBuffer == <<>>

\* open(path, 'a').write(text): the text is added to what the file holds.
open_append(file, text) == [exists |-> TRUE, data |-> file.data \o text]

\* open(path, 'w').write(text): the file is created or truncated, then written.
open_write(file, text) == [exists |-> TRUE, data |-> text]

\* The writes inside the loop: reached after the first interface.
AfterFirstInterface(i, n) == IF i > n \/ i > 1 THEN "write_h" ELSE "iface"

\* for iface in ifaces: ...; then the two writes.
AfterInterface(i, n) == IF i > n THEN "write_h" ELSE "iface"

Construct(d) ==
  /\ dom' = d
  /\ header' = NewBuffer
  /\ body' = NewBuffer
  /\ ifaces' = <<>>
  /\ idx' = 0
  /\ name' = <<>>
  /\ methods' = <<>>
  /\ midx' = 0
  /\ method' = NoMethod
  /\ ret_count' = 0
  /\ in_args' = <<>>
  /\ out_args' = <<>>
  /\ pc' = "start"
  /\ err' = NoError

Init ==
  /\ dom \in Schemas
  /\ header = NewBuffer
  /\ body = NewBuffer
  /\ ifaces = <<>>
  /\ idx = 0
  /\ name = <<>>
  /\ methods = <<>>
  /\ midx = 0
  /\ method = NoMethod
  /\ ret_count = 0
  /\ in_args = <<>>
  /\ out_args = <<>>
  /\ \E f \in InitialFiles : hfile = f /\ cfile = f
  /\ pc = "start"
  /\ err = NoError
  /\ exits = <<>>

Raise(kind, where) ==
  /\ pc' = "error"
  /\ err' = [kind |-> kind, where |-> where]
  /\ exits' = Append(exits, kind)

\* The lines __call__ puts first in each buffer.
HeaderPrologue ==
  <<"#include <dbus/dbus-glib.h>",
    "#include <telepathy-glib/proxy.h>",
    "#include <telepathy-glib/interfaces.h>",
    "">>

BodyPrologue == <<"#include \"" \o basename \o ".h\"", "">>

\* __call__, up to the loop over the interfaces.
CallBegin ==
  /\ pc = "start"
  /\ header' = header \o HeaderPrologue
  /\ body' = body \o BodyPrologue
  /\ ifaces' = sort_by_name(getNodeElements(dom))
  /\ idx' = 1
  /\ pc' = AfterInterface(1, Len(ifaces'))
  /\ UNCHANGED <<dom, locals, hfile, cfile, err, exits>>

\* do_interface(ifaces[idx]), up to its loop over the methods.
DoInterface ==
  /\ pc = "iface"
  /\ LET r == do_interface(header, body, ifaces[idx])
     IN /\ header' = r.h
        /\ body' = r.b
        /\ IF ~r.ok
           THEN /\ Raise(r.error, "do_interface")
                /\ UNCHANGED <<idx, locals>>
           ELSE /\ name' = r.name
                /\ methods' = r.methods
                /\ midx' = 1
                /\ idx' = IF r.methods = <<>> THEN idx + 1 ELSE idx
                /\ pc' = IF r.methods = <<>>
                         THEN AfterInterface(idx + 1, Len(ifaces))
                         ELSE "method"
                /\ UNCHANGED <<method, ret_count, in_args, out_args, err, exits>>
  /\ UNCHANGED <<dom, ifaces, hfile, cfile>>

\* do_method(name, methods[midx]).
DoMethod ==
  /\ pc = "method"
  /\ LET r == do_method(header, body, name, methods[midx])
         last == midx = Len(methods)
     IN /\ method' = methods[midx]
        /\ ret_count' = r.st.ret_count
        /\ in_args' = r.st.in_args
        /\ out_args' = r.st.out_args
        /\ header' = r.h
        /\ body' = r.b
        /\ IF ~r.ok
           THEN /\ Raise("UnknownType", "do_method")
                /\ UNCHANGED <<idx, midx>>
           ELSE /\ midx' = midx + 1
                /\ idx' = IF last THEN idx + 1 ELSE idx
                /\ pc' = IF last THEN AfterInterface(idx + 1, Len(ifaces))
                         ELSE "method"
                /\ UNCHANGED <<err, exits>>
  /\ UNCHANGED <<dom, ifaces, name, methods, hfile, cfile>>

\* open(self.basename + '.h', 'w').write('\n'.join(self.__header))
WriteHeader ==
  /\ pc = "write_h"
  /\ hfile' = open_write(hfile, Join(header))
  /\ pc' = "write_c"
  /\ UNCHANGED <<dom, header, body, ifaces, idx, locals, cfile, err, exits>>

\* open(self.basename + '.c', 'w').write('\n'.join(self.__body))
WriteBody ==
  /\ pc = "write_c"
  /\ cfile' = open_write(cfile, Join(body))
  /\ pc' = "done"
  /\ exits' = Append(exits, "ok")
  /\ UNCHANGED <<dom, header, body, ifaces, idx, locals, hfile, err>>

\* The generator is run again, on any schema, with the same prefix and basename.
Rerun ==
  /\ pc \in {"done", "error"}
  /\ Len(exits) < MaxRuns
  /\ \E d \in RerunSchemas : Construct(d)
  /\ UNCHANGED <<hfile, cfile, exits>>

Next ==
  \/ CallBegin
  \/ DoInterface
  \/ DoMethod
  \/ WriteHeader
  \/ WriteBody
  \/ Rerun

Spec == Init /\ [][Next]_vars

(***************************************************************************)
(* What the schema declares, stated by position rather than by the loops   *)
(* of the generator.                                                       *)
(***************************************************************************)
DeclaredOut(a) == a.direction = "out"

DeclaredIn(a) == a.direction # "out"

\* The positions of the declared in-arguments and out-arguments, ascending.
InIndexes(args) ==
  SelectSeq([i \in 1..Len(args) |-> i], LAMBDA i : DeclaredIn(args[i]))

OutIndexes(args) ==
  SelectSeq([i \in 1..Len(args) |-> i], LAMBDA i : DeclaredOut(args[i]))

UnnamedOutsBefore(args, i) ==
  Cardinality({j \in 1..(i - 1) : DeclaredOut(args[j]) /\ args[j].name = ""})

ResolvedName(args, i) ==
  IF DeclaredIn(args[i]) THEN "in_" \o args[i].name
  ELSE IF args[i].name # "" THEN "out_" \o args[i].name
  ELSE "out" \o DecimalStr(UnnamedOutsBefore(args, i))

ExpectedEntry(args, i) ==
  [name |-> ResolvedName(args, i), info |-> type_to_gtype(args[i].type),
   tp_type |-> args[i].tp_type]

ExpectedIns(args) ==
  LET ix == InIndexes(args)
  IN [k \in 1..Len(ix) |-> ExpectedEntry(args, ix[k])]

ExpectedOuts(args) ==
  LET ox == OutIndexes(args)
  IN [k \in 1..Len(ox) |-> ExpectedEntry(args, ox[k])]

HasUnknownType(args) == \E i \in 1..Len(args) : args[i].type \notin KnownTypes

\* The lines a step added to a buffer.
Added(before, after) == SubSeq(after, Len(before) + 1, Len(after))

\* A method has been processed to the end of its argument loop.
MethodDone == method # NoMethod /\ ~(pc = "error" /\ err.where = "do_method")

FilesUnchanged == hfile' = hfile /\ cfile' = cfile

(***************************************************************************)
(* C1.  A method's arguments are split into in-arguments and out-arguments *)
(* with the schema's order kept inside each group; the parameter list of   *)
(* the prototype and of the definition is the in-arguments, then the       *)
(* out-arguments, then the error parameter, and the call payload is the    *)
(* in-arguments, G_TYPE_INVALID, the out-arguments, G_TYPE_INVALID.        *)
(***************************************************************************)
C1_OrderPreserved ==
  [][(pc = "method" /\ pc' # "error") =>
       LET args == methods[midx].args
           ins == ExpectedIns(args)
           outs == ExpectedOuts(args)
           n == Len(args)
           dh == Added(header, header')
           db == Added(body, body')
           params == InParamLines(ins) \o OutParamLines(outs)
           payload == <<"      /* in arguments */">>
                        \o PayloadLines(ins)
                        \o <<"      G_TYPE_INVALID,", "      /* out arguments */">>
                        \o PayloadLines(outs)
                        \o <<"      G_TYPE_INVALID);">>
       IN /\ in_args' = ins
          /\ out_args' = outs
          /\ Len(dh) = n + 4
          /\ SubSeq(dh, 2, n + 1) = params
          /\ dh[n + 2] = "    GError **error);"
          /\ Len(db) = 2 * n + 19
          /\ SubSeq(db, 2, n + 1) = params
          /\ db[n + 2] = "    GError **error)"
          /\ SubSeq(db, n + 13, Len(db) - 3) = payload]_vars

\* A method whose first argument is an output, followed by inputs and outputs.
C1_Witness ==
  /\ pc = "write_h"
  /\ Len(method.args) = 3
  /\ DeclaredOut(method.args[1])
  /\ DeclaredIn(method.args[2])
  /\ DeclaredOut(method.args[3])
  /\ Len(in_args) = 1
  /\ Len(out_args) = 2

(***************************************************************************)
(* C2.  The unnamed out-arguments of a method are named out0, out1, ... in *)
(* declaration order by a counter that starts at 0 in every method and     *)
(* moves only at an unnamed out-argument; no two of them share a name and  *)
(* none has the name of a named out-argument or of an in-argument.         *)
(***************************************************************************)
C2_UnnamedOutNumbering ==
  MethodDone =>
    LET args == method.args
        ox == OutIndexes(args)
        unnamed == {k \in 1..Len(ox) : args[ox[k]].name = ""}
    IN /\ Len(out_args) = Len(ox)
       /\ ret_count = Cardinality(unnamed)
       /\ \A k \in unnamed :
            out_args[k].name = "out" \o DecimalStr(Cardinality({j \in unnamed : j < k}))
       /\ \A k \in (1..Len(ox)) \ unnamed :
            out_args[k].name = "out_" \o args[ox[k]].name
       /\ \A k \in unnamed : \A j \in 1..Len(ox) :
            j # k => out_args[j].name # out_args[k].name
       /\ \A k \in unnamed : \A j \in 1..Len(in_args) :
            in_args[j].name # out_args[k].name

\* Two unnamed out-arguments with a named one between them.
C2_Witness ==
  /\ pc = "write_h"
  /\ Len(method.args) = 3
  /\ ret_count = 2
  /\ Len(out_args) = 3
  /\ method.args[2].name # ""

(***************************************************************************)
(* C3.  A method with an argument whose wire type the table lacks makes    *)
(* the run fail with the unknown-type error, and the step adds nothing to  *)
(* the header or the body buffer for that method, wherever the argument    *)
(* stands; the failed run goes no further.                                 *)
(***************************************************************************)
C3_UnknownTypeEmitsNothing ==
  [][/\ (pc = "method" /\ HasUnknownType(methods[midx].args)) =>
          /\ pc' = "error"
          /\ err' = [kind |-> "UnknownType", where |-> "do_method"]
          /\ header' = header
          /\ body' = body
          /\ FilesUnchanged
     /\ (pc = "error" /\ err.where = "do_method") =>
          (pc' = "start" /\ FilesUnchanged)]_vars

\* The offending argument is the second of three.
C3_Witness ==
  /\ pc = "error"
  /\ err = [kind |-> "UnknownType", where |-> "do_method"]
  /\ Len(method.args) = 3
  /\ method.args[1].type \in KnownTypes
  /\ method.args[2].type \notin KnownTypes
  /\ Len(body) = Len(BodyPrologue)

\* a <= b in code-point lexicographic order.
NameLeq(a, b) ==
  \/ Len(a) <= Len(b) /\ SubSeq(b, 1, Len(a)) = a
  \/ \E k \in 1..Len(a) :
       /\ k <= Len(b)
       /\ SubSeq(a, 1, k - 1) = SubSeq(b, 1, k - 1)
       /\ Ord(a[k]) < Ord(b[k])

Occurrences(list, e) == Cardinality({i \in 1..Len(list) : list[i] = e})

StubStart(node, m) ==
  "gboolean\n" \o StubName(Str(lower(replace_slash(node.name))),
                            Str(camelcase_to_lower(m.name)))

StubStartsOf(node) ==
  LET ms == getMethodElements(node)
  IN [k \in 1..Len(ms) |-> StubStart(node, ms[k])]

RegistrationLines ==
  [i \in 1..Len(ifaces) |-> SignalFunctionLine(replace_slash(ifaces[i].name))]

StubStartLines == Concat([i \in 1..Len(ifaces) |-> StubStartsOf(ifaces[i])])

InList(list, l) == \E i \in 1..Len(list) : list[i] = l

(***************************************************************************)
(* C4.  Whatever the order of the nodes in the schema, they are processed  *)
(* in ascending case-sensitive lexicographic order of their name attribute,*)
(* each exactly once, and a run that completes has put their registration  *)
(* functions in the header and their stubs in the body in that order.      *)
(***************************************************************************)
C4_SortedByName ==
  pc # "start" =>
    LET nodes == getNodeElements(dom)
        regs == RegistrationLines
        stubs == StubStartLines
    IN /\ Len(ifaces) = Len(nodes)
       /\ \A i \in 1..Len(nodes) :
            Occurrences(ifaces, nodes[i]) = Occurrences(nodes, nodes[i])
       /\ \A i \in 1..Len(ifaces) : \A j \in i..Len(ifaces) :
            NameLeq(ifaces[i].name, ifaces[j].name)
       /\ pc \in {"write_h", "write_c", "done"} =>
            /\ SelectSeq(header, LAMBDA l : InList(regs, l)) = regs
            /\ SelectSeq(body, LAMBDA l : InList(stubs, l)) = stubs

\* Zeta, Alpha, Mu in the schema; Alpha, Mu, Zeta in the run that completed.
C4_Witness ==
  /\ pc = "done"
  /\ Len(dom) = 3
  /\ dom[1].name = Zeta /\ dom[2].name = Alpha /\ dom[3].name = Mu
  /\ Len(ifaces) = 3
  /\ ifaces[1].name = Alpha /\ ifaces[2].name = Mu /\ ifaces[3].name = Zeta

RECURSIVE RunMethods(_, _, _, _, _)
RunMethods(h, b, nm, ms, k) ==
  IF k > Len(ms) THEN [ok |-> TRUE, h |-> h, b |-> b]
  ELSE LET r == do_method(h, b, nm, ms[k])
       IN IF ~r.ok THEN [ok |-> FALSE, h |-> r.h, b |-> r.b]
          ELSE RunMethods(r.h, r.b, nm, ms, k + 1)

RECURSIVE RunInterfaces(_, _, _, _)
RunInterfaces(h, b, nodes, i) ==
  IF i > Len(nodes) THEN [ok |-> TRUE, h |-> h, b |-> b]
  ELSE LET r == do_interface(h, b, nodes[i])
       IN IF ~r.ok THEN [ok |-> FALSE, h |-> r.h, b |-> r.b]
          ELSE LET q == RunMethods(r.h, r.b, r.name, r.methods, 1)
               IN IF ~q.ok THEN q ELSE RunInterfaces(q.h, q.b, nodes, i + 1)

\* The buffers of a run of the generator on schema d that starts from nothing.
FirstRun(d) ==
  RunInterfaces(HeaderPrologue, BodyPrologue, sort_by_name(getNodeElements(d)), 1)

AfterFailedRun ==
  Len(exits) >= 2 /\ exits[Len(exits) - 1] = "UnknownType"

(***************************************************************************)
(* C5.  When a run has failed with the unknown-type error and the next run *)
(* completes, the two files hold exactly what a first run of the generator *)
(* on that schema writes: nothing of the failed run, and nothing the files *)
(* held before.                                                            *)
(***************************************************************************)
C5_RerunLeavesNoResidue ==
  (pc = "done" /\ AfterFailedRun) =>
    LET first == FirstRun(dom)
    IN /\ first.ok
       /\ hfile = [exists |-> TRUE, data |-> Join(first.h)]
       /\ cfile = [exists |-> TRUE, data |-> Join(first.b)]

\* The second run completed after a first one that failed.
C5_Witness ==
  /\ pc = "done"
  /\ exits = <<"UnknownType", "ok">>
  /\ Len(header) > Len(HeaderPrologue)
  /\ Len(body) > Len(BodyPrologue)

(***************************************************************************)
(* C6.  As claimed: the signal-registration block of an interface is       *)
(* appended to the header buffer and to the body buffer.                   *)
(***************************************************************************)
C6_BlockInBothBuffers ==
  [][(pc = "iface" /\ pc' # "error") =>
       /\ Added(header, header') # <<>>
       /\ Added(body, body') = Added(header, header')]_vars

ExpectedRegistration(signal) ==
  <<"  dbus_g_proxy_add_signal (proxy, \"" \o signal.name \o "\",">>
    \o [k \in 1..Len(signal.args) |->
          "      " \o type_to_gtype(signal.args[k].type).gtype \o ","]
    \o <<"      G_TYPE_INVALID);">>

ExpectedSignalBlock(node) ==
  LET sigs == getSignalElements(node)
  IN <<"static inline void",
       prefix_lc \o "_add_signals_for_"
         \o Str(lower(replace_slash(node.name))) \o " (DBusGProxy *proxy)",
       "{">>
       \o Concat([k \in 1..Len(sigs) |-> ExpectedRegistration(sigs[k])])
       \o <<"}", "", "">>

(***************************************************************************)
(* C6, amended.  The signal-registration block of an interface (the static *)
(* inline function that registers each signal's name with the marshalling  *)
(* tags of its arguments in schema order, each list ended by               *)
(* G_TYPE_INVALID) is appended to the header buffer only; the body buffer  *)
(* is left as it was.                                                      *)
(***************************************************************************)
C6_BlockInHeaderOnly ==
  [][(pc = "iface" /\ pc' # "error") =>
       /\ Added(header, header') = ExpectedSignalBlock(ifaces[idx])
       /\ body' = body]_vars

\* An interface with signals has been registered and its methods come next.
C6_Witness ==
  /\ pc = "method"
  /\ midx = 1
  /\ getSignalElements(ifaces[idx]) # <<>>
  /\ Len(header) > Len(HeaderPrologue)
  /\ body = BodyPrologue

\* The interface elements below a node, its own and the nested ones.
InterfaceCount(node) ==
  Cardinality({<<0, k>> : k \in 1..Len(node.ifaces)}
                \cup UNION {{<<j, k>> : k \in 1..Len(node.nodes[j].ifaces)} :
                              j \in 1..Len(node.nodes)})

(***************************************************************************)
(* C7.  A node must hold exactly one interface element, those of the nodes *)
(* nested in it counted: with none, or with more than one, the run fails   *)
(* at that node before anything is added to either buffer for it, and the  *)
(* failed run writes neither file.                                         *)
(***************************************************************************)
C7_ExactlyOneInterface ==
  [][/\ (pc = "iface" /\ InterfaceCount(ifaces[idx]) # 1) =>
          /\ pc' = "error"
          /\ err' = [kind |-> "AssertionError", where |-> "do_interface"]
          /\ header' = header
          /\ body' = body
          /\ FilesUnchanged
     /\ (pc = "iface" /\ InterfaceCount(ifaces[idx]) = 1) =>
          ~(pc' = "error" /\ err'.kind = "AssertionError")
     /\ (pc = "error" /\ err.kind = "AssertionError") =>
          (pc' = "start" /\ FilesUnchanged)]_vars

\* The run failed at a node that has an interface of its own and a nested
\* one, after another node had been emitted.
C7_Witness ==
  /\ pc = "error"
  /\ err.kind = "AssertionError"
  /\ idx > 1
  /\ ifaces[idx].nodes # <<>>
  /\ Len(ifaces[idx].ifaces) = 1

NodeTypesKnown(node) ==
  /\ \A k \in 1..Len(getSignalElements(node)) :
       ~HasUnknownType(getSignalElements(node)[k].args)
  /\ \A k \in 1..Len(getMethodElements(node)) :
       ~HasUnknownType(getMethodElements(node)[k].args)

SoundNode(node) == InterfaceCount(node) = 1 /\ NodeTypesKnown(node)

(***************************************************************************)
(* C8.  As claimed: a node that carries no interface element is skipped;   *)
(* when the other nodes of the schema are sound the run does not fail.     *)
(***************************************************************************)
C8_InterfacelessNodeSkipped ==
  LET nodes == getNodeElements(dom)
  IN (/\ \E i \in 1..Len(nodes) : InterfaceCount(nodes[i]) = 0
      /\ \E i \in 1..Len(nodes) : InterfaceCount(nodes[i]) = 1
      /\ \A i \in 1..Len(nodes) :
           InterfaceCount(nodes[i]) # 0 => SoundNode(nodes[i]))
       => pc # "error"

(***************************************************************************)
(* C8, amended.  The generator skips the elements of the schema that are   *)
(* not node elements: only node elements are processed, and no run fails   *)
(* at a sound node.  A node element that carries no interface element is   *)
(* not skipped: a run completes only when every node of the schema holds   *)
(* exactly one interface element.                                          *)
(***************************************************************************)
C8_OnlyNonNodesSkipped ==
  /\ pc # "start" =>
       /\ \A i \in 1..Len(ifaces) : ifaces[i].tag = "node"
       /\ \A i \in 1..Len(dom) :
            dom[i].tag = "node" => InList(ifaces, dom[i])
  /\ pc = "error" => ~SoundNode(ifaces[idx])
  /\ pc \in {"write_h", "write_c", "done"} =>
       \A i \in 1..Len(ifaces) : InterfaceCount(ifaces[i]) = 1

\* A run over a schema with a non-node element among its nodes completed.
C8_Witness ==
  /\ pc = "done"
  /\ \E i \in 1..Len(dom) : dom[i].tag = "other"
  /\ Len(ifaces) >= 2

(***************************************************************************)
(* C9.  An argument is an out-argument exactly when its direction is the   *)
(* string "out".  With any other direction (none, "in", another spelling)  *)
(* it is an in-argument named 'in_' + name, and the direction never makes  *)
(* the run fail: do_method fails only on an unknown wire type.             *)
(***************************************************************************)
C9_OutOnlyWhenLiterallyOut ==
  /\ MethodDone =>
       LET args == method.args
           ix == SelectSeq([i \in 1..Len(args) |-> i],
                           LAMBDA i : args[i].direction # "out")
           ox == SelectSeq([i \in 1..Len(args) |-> i],
                           LAMBDA i : args[i].direction = "out")
       IN /\ Len(in_args) = Len(ix)
          /\ \A k \in 1..Len(ix) : in_args[k].name = "in_" \o args[ix[k]].name
          /\ Len(out_args) = Len(ox)
          /\ \A k \in 1..Len(ox) :
               out_args[k].info = type_to_gtype(args[ox[k]].type)
  /\ (pc = "error" /\ err.where = "do_method") =>
       /\ err.kind = "UnknownType"
       /\ HasUnknownType(method.args)

\* Directions "", "OUT" and "out" in one method.
C9_Witness ==
  /\ pc = "write_h"
  /\ Len(method.args) = 3
  /\ \E i \in 1..3 : method.args[i].direction = ""
  /\ \E i \in 1..3 : method.args[i].direction = "OUT"
  /\ \E i \in 1..3 : method.args[i].direction = "out"
  /\ Len(in_args) = 2
  /\ Len(out_args) = 1

(***************************************************************************)
(* C10.  The files are written only when every interface has been emitted  *)
(* into the buffers, the header file first and the body file after it; a   *)
(* step that ends the run in an error, and every step before it, leaves    *)
(* both files as they were.                                                *)
(***************************************************************************)
C10_FilesWrittenLast ==
  [][/\ hfile' # hfile =>
          /\ pc = "write_h"
          /\ idx = Len(ifaces) + 1
          /\ hfile' = [exists |-> TRUE, data |-> Join(header)]
          /\ cfile' = cfile
     /\ cfile' # cfile =>
          /\ pc = "write_c"
          /\ idx = Len(ifaces) + 1
          /\ hfile = [exists |-> TRUE, data |-> Join(header)]
          /\ cfile' = [exists |-> TRUE, data |-> Join(body)]
          /\ hfile' = hfile
     /\ pc \in {"start", "iface", "method", "error"} => FilesUnchanged
     /\ pc' = "error" => pc \in {"iface", "method"}]_vars

\* A run failed with lines in its buffers; the files that were there before
\* it are as they were.
C10_Witness ==
  /\ pc = "error"
  /\ exits = <<err.kind>>
  /\ Len(header) > Len(HeaderPrologue)
  /\ Len(body) > Len(BodyPrologue)
  /\ hfile = [exists |-> TRUE, data |-> "stale"]
  /\ cfile = [exists |-> TRUE, data |-> "stale"]

====
